---- MODULE Spec2Model ----
(***************************************************************************)
(* The retry loop of MTGQuerySystemAzure (src/src/llm.py): one session of  *)
(* query_with_retry, driven by the responses of the model provider and of  *)
(* the graph store; and the ingestion pipeline that prepares the data      *)
(* (src/mtg_rdf/extractor.py, src/mtg_rdf/ingest.py).                      *)
(*                                                                         *)
(* Python dicts are records that carry the set of keys they really hold    *)
(* (field "keys"); the value of a field whose key is absent is a filler    *)
(* and is never read: every d[k] of the code is modelled with the KeyError *)
(* it raises when k is absent.  Formatted text (f-strings) is a sequence   *)
(* of string tokens, in the order the code concatenates them.              *)
(***************************************************************************)
EXTENDS Integers, Sequences, FiniteSets, TLC

VARIABLES
    max_retries,           \* self.max_retries
    schema,                \* self.schema, the digest extract_schema returned
    graph,                 \* self.graph, the handle of the graph store
    pc,                    \* position of query_with_retry
    attempt,               \* loop variable of "for attempt in range(...)"
    conversation_history,  \* local list of query_with_retry
    all_attempts,          \* local list of query_with_retry
    context,               \* text built by _build_context for this attempt
    sparql_query,          \* local of _single_attempt
    reasoning,             \* local of _single_attempt
    answer,                \* local of query_with_retry
    outcome,               \* value returned by query_with_retry
    error,                 \* exception that left query_with_retry ("" = none)
    steps,                 \* history: the steps performed, in order
    performed,             \* history: what each started attempt was given
    faulted,               \* history: the call the provider failed ("" = none)
    passed,                \* history: the list last handed to a retry preparation
    session,               \* the call of query_with_retry that is running
    parked,                \* the locals of the other call on the same instance
    data_dir,              \* the files of DATA_DIR that the pipeline reads and writes
    ingest                 \* locals and history of the running Ingest.run call

\* the locals of one call of query_with_retry, and its history
locals == <<pc, attempt, conversation_history, all_attempts, context,
            sparql_query, reasoning, answer, outcome, error, steps, performed,
            faulted, passed>>

vars == <<max_retries, schema, graph, pc, attempt, conversation_history, all_attempts, context,
          sparql_query, reasoning, answer, outcome, error, steps, performed,
          faulted, passed, session, parked, data_dir, ingest>>

----------------------------------------------------------------------------
(* Bounds of the model and constants of the program *)

MaxRetriesBound == 2
MaxRows == 21
MaxPredicates == 101
MaxCards == 6
ComposeCap == 20
ValidateCap == 10
PredicateCap == 100
SampleCap == 5
PromptPredicateCap == 30

NoneVal == "None"
Question == "How many versions of counterspell exist?"
Rationale == "find printings"
StoreErrors == {"syntax error", "timeout"}
Answers == {"There are 7.", "I cannot tell."}
RowCounts == {0, 1, ValidateCap + 1, MaxRows}

Min(a, b) == IF a < b THEN a ELSE b

\* s[:n]
Take(s, n) == SubSeq(s, 1, Min(n, Len(s)))

\* the rows of a result, in store order
Rows(n) == [k \in 1..n |-> k]

----------------------------------------------------------------------------
(* The files of DATA_DIR (src/src/config.py) *)

MaxRuns == 2

\* the dates a Meta.json may carry, and the versions of AllPrintings.json
Dates == {"2024-01-01", "2024-02-01"}

\* Meta.json: absent, a file json.load fails on, or a document with a date
MetaFiles ==
    { [exists |-> FALSE, parses |-> FALSE, date |-> ""],
      [exists |-> TRUE, parses |-> FALSE, date |-> ""] }
    \cup { [exists |-> TRUE, parses |-> TRUE, date |-> d] : d \in Dates }

\* AllPrintings.json: absent, or the download of some version
AllPrintingsFiles ==
    { [exists |-> FALSE, version |-> ""] }
    \cup { [exists |-> TRUE, version |-> d] : d \in Dates }

\* the states DATA_DIR may be found in: rdf is whether mtg-rdf.ttl exists
DataDirs ==
    { [rdf |-> r, meta |-> m, all_printings |-> a] :
        r \in BOOLEAN, m \in MetaFiles, a \in AllPrintingsFiles }

\* DATA_DIR after a complete ingestion, which the query system is built on
IngestedDataDir ==
    [rdf |-> TRUE,
     meta |-> [exists |-> TRUE, parses |-> TRUE, date |-> "2024-01-01"],
     all_printings |-> [exists |-> TRUE, version |-> "2024-01-01"]]

\* what requests.get(META_URL) gives: raise_for_status raises, or a document
MetaResponses ==
    { [fault |-> TRUE, date |-> ""] }
    \cup { [fault |-> FALSE, date |-> d] : d \in Dates }

\* what requests.get(ALL_PRINTINGS_URL) gives
AllPrintingsResponses ==
    { [fault |-> TRUE, version |-> ""] }
    \cup { [fault |-> FALSE, version |-> d] : d \in Dates }

\* no call of Ingest.run is running
NoIngest ==
    [run |-> 0, before |-> IngestedDataDir, extraction_required |-> FALSE,
     compared |-> FALSE, remote_date |-> "", wrote_meta |-> FALSE,
     wrote_all_printings |-> FALSE, checked |-> IngestedDataDir,
     transformed |-> FALSE, result |-> NoneVal]

\* a test that looks at Meta.json only
FilesMissingMetaOnly(rdf_exists, meta_exists) == ~meta_exists

\* extractor.py line 28: not RDF_FILEPATH.exists() or not META_FILEPATH.exists()
FilesMissing(rdf_exists, meta_exists) == ~rdf_exists \/ ~meta_exists

----------------------------------------------------------------------------
(* The graph store as extract_schema sees it, and the schema digest *)

\* the distinct predicates of a store and the names of its cards that match
\* the filter of the sample query, in store order
Predicates(n) == [k \in 1..n |-> ":p" \o ToString(k)]
Cards(n) == [k \in 1..n |-> "Counterspell " \o ToString(k)]

\* the store loaded at lines 16-17; fault: graph.query raises on the queries
\* of extract_schema
GraphHandle == [fault |-> FALSE, predicates |-> Predicates(2), cards |-> Cards(1)]

NoDigest == [predicates |-> <<>>, sample_cards |-> <<>>]

\* a sampler that reads the first sample without testing for an empty result
extract_schema_first_sample(store) ==
    IF store.fault
    THEN [raises |-> "StoreFault", value |-> NoDigest]
    ELSE IF store.cards = <<>>
    THEN [raises |-> "IndexError", value |-> NoDigest]
    ELSE [raises |-> "",
          value |-> [predicates |-> Take(store.predicates, PredicateCap),
                     sample_cards |-> Take(store.cards, SampleCap)]]

\* lines 31-53: LIMIT 100 predicates, LIMIT 5 samples; the queries are not
\* guarded, so a fault of the store leaves extract_schema
extract_schema(store) ==
    IF store.fault
    THEN [raises |-> "StoreFault", value |-> NoDigest]
    ELSE LET samples == Take(store.cards, SampleCap) IN
         [raises |-> "",
          value |-> [predicates |-> Take(store.predicates, PredicateCap),
                     sample_cards |-> IF samples # <<>> THEN samples ELSE <<>>]]

\* what __init__ leaves in self.schema for the store GraphHandle
SchemaDigest == extract_schema(GraphHandle).value

----------------------------------------------------------------------------
(* Responses of the two external capabilities *)

\* what graph.query does with a query text: a result set, or a fault
StoreResponses(query) ==
    { [fault |-> TRUE, error |-> e, rows |-> <<>>] : e \in StoreErrors }
    \cup (IF query = NoneVal
          THEN {}
          ELSE { [fault |-> FALSE, error |-> "", rows |-> Rows(n)] : n \in RowCounts })

\* the arguments text of a structured call: unparseable text, JSON that is
\* no object, or a JSON object holding some of the keys query, reasoning
CallArguments ==
    { [parses |-> FALSE, isdict |-> FALSE, keys |-> {}, query |-> "", reasoning |-> ""],
      [parses |-> TRUE, isdict |-> FALSE, keys |-> {}, query |-> "", reasoning |-> ""],
      [parses |-> TRUE, isdict |-> TRUE, keys |-> {"reasoning"}, query |-> "",
       reasoning |-> Rationale],
      [parses |-> TRUE, isdict |-> TRUE, keys |-> {"query", "reasoning"},
       query |-> "SELECT ?a", reasoning |-> Rationale],
      [parses |-> TRUE, isdict |-> TRUE, keys |-> {"query"},
       query |-> "SELECT ?b", reasoning |-> ""] }

\* response of the provider to the generation call
GenerationResponses ==
    { [fault |-> TRUE, function_call |-> FALSE, arguments |-> a] :
        a \in { [parses |-> FALSE, isdict |-> FALSE, keys |-> {}, query |-> "",
                 reasoning |-> ""] } }
    \cup { [fault |-> FALSE, function_call |-> FALSE, arguments |-> a] :
        a \in { [parses |-> FALSE, isdict |-> FALSE, keys |-> {}, query |-> "",
                 reasoning |-> ""] } }
    \cup { [fault |-> FALSE, function_call |-> TRUE, arguments |-> a] :
        a \in CallArguments }

\* response of the provider to the composition call
CompositionResponses ==
    { [fault |-> TRUE, content |-> ""] }
    \cup { [fault |-> FALSE, content |-> a] : a \in Answers }

NoVerdict ==
    [keys |-> {}, satisfactory |-> FALSE, reason |-> "", missing |-> "",
     suggestion |-> ""]

\* the JSON objects a validator payload may encode
VerdictObjects ==
    { [keys |-> {"satisfactory", "reason", "missing", "suggestion"},
       satisfactory |-> s, reason |-> "not a number", missing |-> "the count",
       suggestion |-> "use COUNT"] : s \in BOOLEAN }
    \cup { [keys |-> {"satisfactory", "reason"}, satisfactory |-> FALSE,
            reason |-> "evasive", missing |-> "", suggestion |-> ""],
           [keys |-> {"satisfactory"}, satisfactory |-> TRUE, reason |-> "",
            missing |-> "", suggestion |-> ""],
           [keys |-> {"satisfactory"}, satisfactory |-> FALSE, reason |-> "",
            missing |-> "", suggestion |-> ""],
           [keys |-> {"reason"}, satisfactory |-> FALSE, reason |-> "fine",
            missing |-> "", suggestion |-> ""] }

\* response of the provider to the validation call
ValidationResponses ==
    { [fault |-> TRUE, parses |-> FALSE, isdict |-> FALSE, value |-> NoVerdict],
      [fault |-> FALSE, parses |-> FALSE, isdict |-> FALSE, value |-> NoVerdict],
      [fault |-> FALSE, parses |-> TRUE, isdict |-> FALSE, value |-> NoVerdict] }
    \cup { [fault |-> FALSE, parses |-> TRUE, isdict |-> TRUE, value |-> v] :
             v \in VerdictObjects }

----------------------------------------------------------------------------
(* execute_sparql *)

ExecOk(query, rows) ==
    [keys |-> {"success", "count", "results", "query"},
     success |-> TRUE, count |-> Len(rows), results |-> rows,
     query |-> query, error |-> ""]

ExecFailed(query, err) ==
    [keys |-> {"success", "error", "query", "results"},
     success |-> FALSE, count |-> 0, results |-> <<>>,
     query |-> query, error |-> err]

execute_sparql(query, store) ==
    IF store.fault THEN ExecFailed(query, store.error)
    ELSE ExecOk(query, store.rows)

\* a no-call record shaped like the failure record of execute_sparql
NoCallExecutionAsFailure ==
    [keys |-> {"success", "error", "results"},
     success |-> FALSE, count |-> 0, results |-> <<>>,
     query |-> NoneVal, error |-> "No query generated"]

\* the execution record of an attempt whose response held no structured call
NoCallExecution ==
    [keys |-> {"success", "count", "results"},
     success |-> FALSE, count |-> 0, results |-> <<>>,
     query |-> NoneVal, error |-> ""]

----------------------------------------------------------------------------
(* validate_answer *)

\* a default verdict that also holds the flag
DefaultVerdictWithFlag ==
    [keys |-> {"satisfactory", "reason"}, satisfactory |-> TRUE,
     reason |-> "Could not validate", missing |-> "", suggestion |-> ""]

DefaultVerdict ==
    [keys |-> {"reason"}, satisfactory |-> FALSE, reason |-> "Could not validate",
     missing |-> "", suggestion |-> ""]

\* validate_answer without the try: the parse error leaves it
validate_answer_no_except(resp) ==
    IF resp.fault
    THEN [raises |-> "TransportFault", is_satisfactory |-> FALSE, details |-> NoVerdict]
    ELSE IF ~resp.parses
    THEN [raises |-> "JSONDecodeError", is_satisfactory |-> FALSE, details |-> NoVerdict]
    ELSE IF resp.isdict /\ "satisfactory" \in resp.value.keys
    THEN [raises |-> "", is_satisfactory |-> resp.value.satisfactory,
          details |-> resp.value]
    ELSE [raises |-> "", is_satisfactory |-> TRUE, details |-> DefaultVerdict]

\* validate_answer with the call moved inside the try: a fault of the call
\* ends in the fallback
validate_answer_call_in_try(resp) ==
    IF ~resp.fault /\ resp.parses /\ resp.isdict /\ "satisfactory" \in resp.value.keys
    THEN [raises |-> "", is_satisfactory |-> resp.value.satisfactory,
          details |-> resp.value]
    ELSE [raises |-> "", is_satisfactory |-> TRUE, details |-> DefaultVerdict]

\* lines 117-128: the call, then json.loads and validation["satisfactory"]
\* under a bare except
validate_answer(resp) ==
    IF resp.fault
    THEN [raises |-> "TransportFault", is_satisfactory |-> FALSE, details |-> NoVerdict]
    ELSE IF resp.parses /\ resp.isdict /\ "satisfactory" \in resp.value.keys
    THEN [raises |-> "", is_satisfactory |-> resp.value.satisfactory,
          details |-> resp.value]
    ELSE [raises |-> "", is_satisfactory |-> TRUE, details |-> DefaultVerdict]

----------------------------------------------------------------------------
(* _build_context *)

\* d.get(key, default), value being the field of d that models d[key]
DictGet(d, key, value, default) == IF key \in d.keys THEN value ELSE default

AttemptIssueRaises(a) ==
    IF "validation" \in a.keys
       /\ ~DictGet(a.validation, "satisfactory", a.validation.satisfactory, TRUE)
    THEN "reason" \notin a.validation.keys
    ELSE "count" \notin a.execution.keys

AttemptIssue(a) ==
    IF "validation" \in a.keys
       /\ ~DictGet(a.validation, "satisfactory", a.validation.satisfactory, TRUE)
    THEN <<"\nIssue: ", a.validation.reason, "\nSuggestion: ",
           DictGet(a.validation, "suggestion", a.validation.suggestion, "N/A")>>
    ELSE IF a.execution.count = 0
    THEN <<"\nIssue: Returned no results">>
    ELSE IF ~a.execution.success
    THEN <<"\nError: ", DictGet(a.execution, "error", a.execution.error, "Unknown")>>
    ELSE <<>>

AttemptText(a, i) ==
    <<"\n\nAttempt ", ToString(i), ":", "\nQuery: ",
      DictGet(a, "sparql", a.sparql, "N/A")>> \o AttemptIssue(a)

\* a context that describes the last attempt only
AttemptsTextLastOnly(previous_attempts, i) ==
    AttemptText(previous_attempts[Len(previous_attempts)], Len(previous_attempts))

RECURSIVE AttemptsText(_, _)
AttemptsText(previous_attempts, i) ==
    IF i > Len(previous_attempts) THEN <<>>
    ELSE AttemptText(previous_attempts[i], i) \o AttemptsText(previous_attempts, i + 1)

Heuristics ==
    <<"\n\nPlease try a different approach. Consider:",
      "\n- Check spelling and case sensitivity",
      "\n- Use FILTER with CONTAINS for partial matches",
      "\n- Try different predicates",
      "\n- Use OPTIONAL for properties that might not exist">>

_build_context(question, previous_attempts) ==
    IF \E i \in 1..Len(previous_attempts) : AttemptIssueRaises(previous_attempts[i])
    THEN [raises |-> "KeyError", text |-> <<>>]
    ELSE [raises |-> "",
          text |-> <<"User question: ", question>>
                   \o (IF previous_attempts = <<>> THEN <<>>
                       ELSE <<"\n\nPrevious attempts that didn't work:">>
                            \o AttemptsText(previous_attempts, 1)
                            \o Heuristics)]

----------------------------------------------------------------------------
(* _prepare_retry_context, _prepare_retry_with_feedback *)

\* a preparation that returns the two new turns only
_prepare_retry_context_fresh(last_result, history) ==
    << [role |-> "assistant",
        content |-> <<"I tried this query but got no results: ",
                      DictGet(last_result, "sparql", last_result.sparql,
                              "No query generated")>>],
       [role |-> "user",
        content |-> <<"The query returned no results. Please try a different approach using partial matching, case-insensitive search, or broader criteria.">>] >>

_prepare_retry_context(last_result, history) ==
    history
    \o << [role |-> "assistant",
           content |-> <<"I tried this query but got no results: ",
                         DictGet(last_result, "sparql", last_result.sparql,
                                 "No query generated")>>],
          [role |-> "user",
           content |-> <<"The query returned no results. Please try a different approach using partial matching, case-insensitive search, or broader criteria.">>] >>

_prepare_retry_with_feedback(last_result, validation, history) ==
    history
    \o << [role |-> "assistant",
           content |-> <<"My query returned ", ToString(last_result.execution.count),
                         " results but didn't fully answer the question.">>],
          [role |-> "user",
           content |-> <<"The answer wasn't satisfactory. \nIssue: ", validation.reason,
                         "\nMissing: ",
                         DictGet(validation, "missing", validation.missing, "Not specified"),
                         "\nSuggestion: ",
                         DictGet(validation, "suggestion", validation.suggestion,
                                 "Try a different approach"),
                         "\n\nPlease generate a new query that addresses these issues.">>] >>

\* a preparation that appends to the list it was handed (new_history = history)
_prepare_retry_context_in_place(last_result, history) ==
    _prepare_retry_context(last_result, history)

\* the list handed to _prepare_retry_context, after the call: line 322 copies
\* it and the two appends go to the copy
_prepare_retry_context_arg(last_result, history) == history

\* the list handed to _prepare_retry_with_feedback, after the call (line 338)
_prepare_retry_with_feedback_arg(last_result, validation, history) == history

\* the list handed to _build_context, after the call: lines 296-318 read it
_build_context_arg(question, previous_attempts) == previous_attempts

----------------------------------------------------------------------------
(* query_with_retry and _single_attempt *)

\* lines 231-255: the messages of the generation call, a fresh list that the
\* history is copied into
GenerationMessages(text, history, question) ==
    << [role |-> "system",
        content |-> <<"You are a SPARQL query expert for an MTG card database.",
                      "Predicates: ">>
                    \o Take(schema.predicates, PromptPredicateCap)
                    \o <<"Sample cards: ">>
                    \o schema.sample_cards] >>
    \o history
    \o << [role |-> "user", content |-> text \o <<"\n\nQuestion to answer: ", question>>] >>

\* the list handed to _single_attempt, after the call: messages.extend(history)
\* at line 249 changes messages only
_single_attempt_arg(text, history, question) == history

NoPassed == [before |-> <<>>, after |-> <<>>]

\* lines 367-375: what the composition prompt holds of the execution result
ComposePrompt(question, execution_result, query) ==
    [question |-> question, query |-> query,
     rows |-> Take(execution_result.results, ComposeCap),
     total |-> execution_result.count, answer |-> ""]

\* a validation prompt cut at the composer's cap
ValidatePromptSameCap(question, query, results, text) ==
    [question |-> question, query |-> query,
     rows |-> Take(results.results, ComposeCap),
     total |-> results.count, answer |-> text]

\* lines 88-96: what the validation prompt holds of the execution result
ValidatePrompt(question, query, results, text) ==
    [question |-> question, query |-> query,
     rows |-> Take(results.results, ValidateCap),
     total |-> results.count, answer |-> text]

NoPrompt == [question |-> "", query |-> "", rows |-> <<>>, total |-> 0, answer |-> ""]

NoStore == [fault |-> FALSE, error |-> "", rows |-> <<>>]

NoResponse == [fault |-> FALSE, parses |-> FALSE, isdict |-> FALSE, value |-> NoVerdict]

NoOutcome ==
    [keys |-> {}, success |-> FALSE, answer |-> "", attempts |-> 0,
     final_query |-> "", results |-> <<>>, all_attempts |-> <<>>]

\* what the history remembers of an attempt that has just started
NewAttempt ==
    [generated |-> FALSE, function_call |-> FALSE, sparql |-> NoneVal,
     executed |-> FALSE, store |-> NoStore,
     composed |-> FALSE, answer |-> "",
     validated |-> FALSE, response |-> NoResponse, is_satisfactory |-> FALSE,
     verdict |-> NoVerdict,
     messages |-> <<>>, compose_prompt |-> NoPrompt, validate_prompt |-> NoPrompt]

\* a loop that runs once more: range(self.max_retries + 1)
LoopContinuesInclusive(i, limit) == i <= limit

\* for attempt in range(self.max_retries)
LoopContinues(i, limit) == i < limit

\* a test that also prepares a retry after the last attempt
HasAttemptsLeftInclusive(i, limit) == i < limit

\* attempt < self.max_retries - 1
HasAttemptsLeft(i, limit) == i < limit - 1

\* lines 271-273: json.loads(arguments), then two .get
ParseArguments(arguments) ==
    IF ~arguments.parses
    THEN [raises |-> "JSONDecodeError", sparql_query |-> NoneVal, reasoning |-> ""]
    ELSE IF ~arguments.isdict
    THEN [raises |-> "AttributeError", sparql_query |-> NoneVal, reasoning |-> ""]
    ELSE [raises |-> "",
          sparql_query |-> DictGet(arguments, "query", arguments.query, NoneVal),
          reasoning |-> DictGet(arguments, "reasoning", arguments.reasoning, "")]

\* the dict _single_attempt returns
AttemptResult(query, why, execution_result) ==
    [keys |-> {"sparql", "reasoning", "execution"},
     sparql |-> query, reasoning |-> why, execution |-> execution_result,
     answer |-> "", validation |-> NoVerdict]

NoCallResult == AttemptResult(NoneVal, "No query generated", NoCallExecution)

\* the assignments made on a copy of the appended dict: the list sees nothing
RecordAnswerOnCopy(attempts, text, details) == attempts

\* result["answer"] = ...; result["validation"] = ...: result is the dict that
\* was appended to all_attempts, so the list sees both
RecordAnswer(attempts, text, details) ==
    [attempts EXCEPT ![Len(attempts)] =
        [@ EXCEPT !.keys = @ \cup {"answer", "validation"},
                  !.answer = text,
                  !.validation = details]]

\* a success outcome that returns the rows shown to the model
SuccessOutcomeTruncated(text, i, result) ==
    [keys |-> {"success", "answer", "attempts", "final_query", "results"},
     success |-> TRUE, answer |-> text, attempts |-> i + 1,
     final_query |-> result.sparql,
     results |-> Take(result.execution.results, ComposeCap),
     all_attempts |-> <<>>]

SuccessOutcome(text, i, result) ==
    [keys |-> {"success", "answer", "attempts", "final_query", "results"},
     success |-> TRUE, answer |-> text, attempts |-> i + 1,
     final_query |-> result.sparql, results |-> result.execution.results,
     all_attempts |-> <<>>]

FailureOutcome(limit, attempts) ==
    [keys |-> {"success", "answer", "attempts", "all_attempts"},
     success |-> FALSE,
     answer |-> "Unable to find satisfactory results after multiple attempts.",
     attempts |-> limit, final_query |-> "", results |-> <<>>,
     all_attempts |-> attempts]

Step(i, op) == [attempt |-> i, op |-> op]

\* lines 132-133: the locals of a call that has just begun
FreshLocals ==
    [pc |-> "loop", attempt |-> 0, conversation_history |-> <<>>,
     all_attempts |-> <<>>, context |-> <<>>, sparql_query |-> NoneVal,
     reasoning |-> "", answer |-> "", outcome |-> NoOutcome, error |-> "",
     steps |-> <<>>, performed |-> <<>>, faulted |-> "", passed |-> NoPassed]

Init ==
    /\ max_retries \in -1..MaxRetriesBound
    /\ schema = SchemaDigest
    /\ graph = GraphHandle
    /\ data_dir = IngestedDataDir
    /\ ingest = NoIngest
    /\ pc = "loop"
    /\ attempt = 0
    /\ conversation_history = <<>>
    /\ all_attempts = <<>>
    /\ context = <<>>
    /\ sparql_query = NoneVal
    /\ reasoning = ""
    /\ answer = ""
    /\ outcome = NoOutcome
    /\ error = ""
    /\ steps = <<>>
    /\ performed = <<>>
    /\ faulted = ""
    /\ passed = NoPassed
    /\ session = 1
    /\ parked = FreshLocals

\* line 135 (the loop goes on) and lines 139-142
StartAttempt ==
    /\ pc = "loop"
    /\ LoopContinues(attempt, max_retries)
    /\ LET built == _build_context(Question, all_attempts) IN
         /\ pc' = IF built.raises = "" THEN "generate" ELSE "raised"
         /\ error' = built.raises
         /\ context' = built.text
    /\ steps' = Append(steps, Step(attempt, "build_context"))
    /\ performed' = Append(performed, NewAttempt)
    /\ all_attempts' = _build_context_arg(Question, all_attempts)
    /\ UNCHANGED <<data_dir, ingest, max_retries, schema, graph, attempt, conversation_history,
                   sparql_query, reasoning, answer, outcome, faulted, passed,
                   session, parked>>

\* lines 258-273 and 288-292, and line 151 for a response without a call
Generate ==
    /\ pc = "generate"
    /\ \E resp \in GenerationResponses :
         LET parsed == ParseArguments(resp.arguments) IN
         /\ steps' = Append(steps, Step(attempt, "generate"))
         /\ faulted' = IF resp.fault THEN "generate" ELSE faulted
         /\ IF resp.fault
            THEN /\ pc' = "raised"
                 /\ error' = "TransportFault"
                 /\ UNCHANGED <<sparql_query, reasoning, all_attempts, performed>>
            ELSE IF ~resp.function_call
            THEN /\ pc' = "check"
                 /\ all_attempts' = Append(all_attempts, NoCallResult)
                 /\ performed' =
                        [performed EXCEPT ![Len(performed)] =
                            [@ EXCEPT !.generated = TRUE,
                                      !.messages = GenerationMessages(
                                          context, conversation_history, Question)]]
                 /\ UNCHANGED <<sparql_query, reasoning, error>>
            ELSE /\ pc' = IF parsed.raises = "" THEN "execute" ELSE "raised"
                 /\ error' = parsed.raises
                 /\ sparql_query' = parsed.sparql_query
                 /\ reasoning' = parsed.reasoning
                 /\ performed' =
                        [performed EXCEPT ![Len(performed)] =
                            [@ EXCEPT !.generated = TRUE,
                                      !.function_call = TRUE,
                                      !.sparql = parsed.sparql_query,
                                      !.messages = GenerationMessages(
                                          context, conversation_history, Question)]]
                 /\ UNCHANGED all_attempts
    /\ conversation_history' =
           _single_attempt_arg(context, conversation_history, Question)
    /\ UNCHANGED <<data_dir, ingest, max_retries, schema, graph, attempt, context, answer, outcome, passed,
                   session, parked>>

\* lines 279-286 and line 151
Execute ==
    /\ pc = "execute"
    /\ \E store \in StoreResponses(sparql_query) :
         LET execution_result == execute_sparql(sparql_query, store) IN
         /\ steps' = Append(steps, Step(attempt, "execute"))
         /\ performed' =
                [performed EXCEPT ![Len(performed)] =
                    [@ EXCEPT !.executed = TRUE, !.store = store]]
         /\ IF "count" \notin execution_result.keys
            THEN \* print(f"Results: {execution_result['count']} rows")
                 /\ pc' = "raised"
                 /\ error' = "KeyError"
                 /\ UNCHANGED all_attempts
            ELSE /\ pc' = "check"
                 /\ all_attempts' =
                        Append(all_attempts,
                               AttemptResult(sparql_query, reasoning, execution_result))
                 /\ UNCHANGED error
    /\ UNCHANGED <<data_dir, ingest, max_retries, schema, graph, attempt, conversation_history, context,
                   sparql_query, reasoning, answer, outcome, faulted, passed,
                   session, parked>>

\* a test that forgets the row count
MeaningfulResultSuccessOnly(result) == result.execution.success

\* line 154
MeaningfulResult(result) ==
    result.execution.success /\ result.execution.count > 0

\* line 154, taken
HasResult ==
    /\ pc = "check"
    /\ MeaningfulResult(all_attempts[Len(all_attempts)])
    /\ pc' = "compose"
    /\ UNCHANGED <<data_dir, ingest, max_retries, schema, graph, attempt, conversation_history, all_attempts,
                   context, sparql_query, reasoning, answer, outcome, error, steps,
                   performed, faulted, passed, session, parked>>

\* lines 190-196
NoResult ==
    /\ pc = "check"
    /\ ~MeaningfulResult(all_attempts[Len(all_attempts)])
    /\ IF HasAttemptsLeft(attempt, max_retries)
       THEN /\ conversation_history' =
                   _prepare_retry_context(all_attempts[Len(all_attempts)],
                                          conversation_history)
            /\ passed' =
                   [before |-> conversation_history,
                    after |-> _prepare_retry_context_arg(
                                  all_attempts[Len(all_attempts)],
                                  conversation_history)]
            /\ steps' = Append(steps, Step(attempt, "retry"))
       ELSE UNCHANGED <<conversation_history, steps, passed>>
    /\ attempt' = attempt + 1
    /\ pc' = "loop"
    /\ UNCHANGED <<data_dir, ingest, max_retries, schema, graph, all_attempts, context, sparql_query, reasoning,
                   answer, outcome, error, performed, faulted, session, parked>>

\* lines 156-160: _generate_final_answer
Compose ==
    /\ pc = "compose"
    /\ \E resp \in CompositionResponses :
         /\ steps' = Append(steps, Step(attempt, "compose"))
         /\ faulted' = IF resp.fault THEN "compose" ELSE faulted
         /\ IF resp.fault
            THEN /\ pc' = "raised"
                 /\ error' = "TransportFault"
                 /\ UNCHANGED <<answer, performed>>
            ELSE /\ pc' = "validate"
                 /\ answer' = resp.content
                 /\ performed' =
                        [performed EXCEPT ![Len(performed)] =
                            [@ EXCEPT !.composed = TRUE,
                                      !.answer = resp.content,
                                      !.compose_prompt =
                                          ComposePrompt(
                                              Question,
                                              all_attempts[Len(all_attempts)].execution,
                                              all_attempts[Len(all_attempts)].sparql)]]
                 /\ UNCHANGED error
    /\ UNCHANGED <<data_dir, ingest, max_retries, schema, graph, attempt, conversation_history, all_attempts,
                   context, sparql_query, reasoning, outcome, passed, session,
                   parked>>

\* a loop that does not return on a satisfactory verdict
AfterValidationNoReturn(is_satisfactory, details) ==
    IF is_satisfactory \/ "reason" \in details.keys THEN "loop" ELSE "raised"

\* lines 173-189: where query_with_retry stands after the verdict: it has
\* returned, or the print of the reason raised, or the loop goes on
AfterValidation(is_satisfactory, details) ==
    IF is_satisfactory THEN "done"
    ELSE IF "reason" \notin details.keys THEN "raised"
    ELSE "loop"

\* lines 163-189: validate_answer, the two assignments, and the decision
Validate ==
    /\ pc = "validate"
    /\ \E resp \in ValidationResponses :
         LET v == validate_answer(resp)
             recorded == RecordAnswer(all_attempts, answer, v.details)
             result == recorded[Len(recorded)]
             after == AfterValidation(v.is_satisfactory, v.details)
             retry == after = "loop" /\ HasAttemptsLeft(attempt, max_retries)
         IN
         /\ faulted' = IF resp.fault THEN "validate" ELSE faulted
         /\ performed' =
                IF resp.fault THEN performed
                ELSE [performed EXCEPT ![Len(performed)] =
                        [@ EXCEPT !.validated = TRUE,
                                  !.response = resp,
                                  !.validate_prompt =
                                      ValidatePrompt(
                                          Question,
                                          all_attempts[Len(all_attempts)].sparql,
                                          all_attempts[Len(all_attempts)].execution,
                                          answer),
                                  !.is_satisfactory = v.raises = "" /\ v.is_satisfactory,
                                  !.verdict = v.details]]
         /\ IF v.raises # ""
            THEN /\ pc' = "raised"
                 /\ error' = v.raises
                 /\ steps' = Append(steps, Step(attempt, "validate"))
                 /\ UNCHANGED <<all_attempts, outcome, attempt, conversation_history,
                                passed>>
            ELSE /\ pc' = after
                 /\ all_attempts' = recorded
                 /\ error' = IF after = "raised" THEN "KeyError" ELSE error
                 /\ outcome' = IF after = "done"
                                THEN SuccessOutcome(answer, attempt, result)
                                ELSE outcome
                 /\ attempt' = IF after = "loop" THEN attempt + 1 ELSE attempt
                 /\ conversation_history' =
                        IF retry
                        THEN _prepare_retry_with_feedback(result, v.details,
                                                          conversation_history)
                        ELSE conversation_history
                 /\ passed' =
                        IF retry
                        THEN [before |-> conversation_history,
                              after |-> _prepare_retry_with_feedback_arg(
                                            result, v.details, conversation_history)]
                        ELSE passed
                 /\ steps' = steps
                             \o <<Step(attempt, "validate"), Step(attempt, "record")>>
                             \o (IF retry THEN <<Step(attempt, "retry")>> ELSE <<>>)
    /\ UNCHANGED <<data_dir, ingest, max_retries, schema, graph, context, sparql_query, reasoning, answer,
                   session, parked>>

\* lines 198-204
ReturnExhausted ==
    /\ pc = "loop"
    /\ ~LoopContinues(attempt, max_retries)
    /\ pc' = "done"
    /\ outcome' = FailureOutcome(max_retries, all_attempts)
    /\ UNCHANGED <<data_dir, ingest, max_retries, schema, graph, attempt, conversation_history, all_attempts,
                   context, sparql_query, reasoning, answer, error, steps,
                   performed, faulted, passed, session, parked>>

Next ==
    \/ StartAttempt
    \/ Generate
    \/ Execute
    \/ HasResult
    \/ NoResult
    \/ Compose
    \/ Validate
    \/ ReturnExhausted

Spec == Init /\ [][Next]_vars

----------------------------------------------------------------------------
(* A session of the default configuration: max_retries=3 (line 7) *)

DefaultMaxRetries == 3

InitDefault ==
    /\ max_retries = DefaultMaxRetries
    /\ schema = SchemaDigest
    /\ graph = GraphHandle
    /\ data_dir = IngestedDataDir
    /\ ingest = NoIngest
    /\ pc = "loop"
    /\ attempt = 0
    /\ conversation_history = <<>>
    /\ all_attempts = <<>>
    /\ context = <<>>
    /\ sparql_query = NoneVal
    /\ reasoning = ""
    /\ answer = ""
    /\ outcome = NoOutcome
    /\ error = ""
    /\ steps = <<>>
    /\ performed = <<>>
    /\ faulted = ""
    /\ passed = NoPassed
    /\ session = 1
    /\ parked = FreshLocals

SpecDefault == InitDefault /\ [][Next]_vars

----------------------------------------------------------------------------
(* Vocabulary of the properties *)

Ended == pc \in {"done", "raised"}

Succeeded == pc = "done" /\ outcome.success

Exhausted == pc = "done" /\ ~outcome.success

\* the store answered the attempt's query with a fault
StoreFaulted(p) == p.executed /\ p.store.fault

\* the store answered the attempt's query with rows
RowCount(p) == Len(p.store.rows)

\* the validator's payload was a verdict the model wrote, and it says v
Judged(p, v) ==
    /\ p.validated
    /\ "satisfactory" \in p.verdict.keys
    /\ p.verdict.satisfactory = v

\* every step the history holds belongs to one of the attempts 0..i
NoStepAfter(i) == \A k \in 1..Len(steps) : steps[k].attempt <= i

\* C1 (as stated): the number of attempts started, and the number recorded
\* in all_attempts, never exceeds max_retries.
C1_AttemptsWithinMaxRetries ==
    /\ Len(performed) <= max_retries
    /\ Len(all_attempts) <= max_retries

\* C1 (amended): the number of attempts started, and the number recorded in
\* all_attempts, never exceeds max_retries when max_retries >= 0, and is 0
\* when max_retries is negative.
C1_AttemptsBounded ==
    /\ Len(performed) <= (IF max_retries < 0 THEN 0 ELSE max_retries)
    /\ Len(all_attempts) <= Len(performed)

C1_Witness ==
    /\ max_retries = MaxRetriesBound
    /\ Len(all_attempts) = max_retries
    /\ Exhausted

\* C2: once an attempt i has an execution with rowCount > 0 and a verdict with
\* satisfactory = true, the session has ended in success at attempt i, no step
\* of a later attempt is in the history, and no earlier attempt satisfied.
C2_StopsAtFirstSatisfied ==
    \A k \in 1..Len(performed) :
        (~StoreFaulted(performed[k]) /\ RowCount(performed[k]) > 0
         /\ Judged(performed[k], TRUE))
        => /\ Succeeded
           /\ outcome.attempts = k
           /\ Len(performed) = k
           /\ Len(all_attempts) = k
           /\ NoStepAfter(k - 1)
           /\ \A j \in 1..(k - 1) : ~performed[j].is_satisfactory

C2_Witness ==
    /\ Succeeded
    /\ outcome.attempts = 2
    /\ RowCount(performed[1]) = 0
    /\ Judged(performed[2], TRUE)

\* an attempt that ran and did not satisfy: a Failed execution, zero rows, or
\* an unsatisfactory verdict
Unsatisfying(p) ==
    \/ StoreFaulted(p)
    \/ p.generated /\ ~p.function_call
    \/ p.executed /\ ~p.store.fault /\ RowCount(p) = 0
    \/ Judged(p, FALSE)

\* C3: a session that has ended and whose attempts (at least one) each gave a
\* Failed execution, zero rows or an unsatisfactory verdict has ended as
\* Exhausted with exactly max_retries recorded attempts.
C3_ExhaustedAfterMaxRetries ==
    (/\ Ended
     /\ performed # <<>>
     /\ \A k \in 1..Len(performed) : Unsatisfying(performed[k]))
    => /\ Exhausted
       /\ outcome.attempts = max_retries
       /\ Len(outcome.all_attempts) = max_retries

\* C4: an attempt whose query the store answered with a fault is recorded with
\* a Failed execution result that carries the store's error text, and no
\* exception has left the attempt: the session is not ended by an exception
\* raised on the store's fault.
C4_StoreFaultBecomesFailed ==
    \A k \in 1..Len(performed) :
        StoreFaulted(performed[k])
        => /\ error # "KeyError"
           /\ k <= Len(all_attempts)
           /\ ~all_attempts[k].execution.success
           /\ "error" \in all_attempts[k].execution.keys
           /\ all_attempts[k].execution.error = performed[k].store.error

\* C5: an attempt whose validator payload was not parseable JSON did not end
\* the session with an exception: the session has succeeded at that attempt.
C5_MalformedPayloadSucceeds ==
    \A k \in 1..Len(performed) :
        (performed[k].validated /\ ~performed[k].response.parses)
        => /\ error = ""
           /\ performed[k].is_satisfactory
           /\ Succeeded
           /\ outcome.attempts = k
           /\ Len(performed) = k

C5_Witness ==
    /\ Len(performed) = 1
    /\ performed[1].validated
    /\ ~performed[1].response.parses
    /\ Succeeded
    /\ outcome.attempts = 1

\* the raw output of the validator is no JSON object
NotAnObject(resp) == ~resp.parses \/ ~resp.isdict

\* C6 (as stated): when the validator's raw output cannot be parsed, the
\* verdict recorded on the attempt has satisfactory = true and
\* reason = "validation unavailable".
C6_DefaultVerdictAsSpecified ==
    \A k \in 1..Len(performed) :
        (performed[k].validated /\ NotAnObject(performed[k].response))
        => /\ "validation" \in all_attempts[k].keys
           /\ "satisfactory" \in all_attempts[k].validation.keys
           /\ all_attempts[k].validation.satisfactory
           /\ all_attempts[k].validation.reason = "validation unavailable"

\* C6 (amended): when the validator's raw output cannot be parsed, the verdict
\* recorded on the attempt is the dict with the single key reason, valued
\* "Could not validate"; a recorded verdict has no satisfactory key exactly
\* when it is this default, so a degraded validator is distinguishable from a
\* verdict of the model.
C6_DefaultVerdictRecorded ==
    \A k \in 1..Len(performed) :
        performed[k].validated
        => /\ "validation" \in all_attempts[k].keys
           /\ NotAnObject(performed[k].response)
              => /\ all_attempts[k].validation.keys = {"reason"}
                 /\ all_attempts[k].validation.reason = "Could not validate"
           /\ "satisfactory" \notin all_attempts[k].validation.keys
              => /\ all_attempts[k].validation = DefaultVerdict
                 /\ "satisfactory" \notin performed[k].response.value.keys
           /\ "satisfactory" \in all_attempts[k].validation.keys
              => all_attempts[k].validation = performed[k].response.value

C6_Witness ==
    /\ performed # <<>>
    /\ performed[Len(performed)].validated
    /\ performed[Len(performed)].response.parses
    /\ ~performed[Len(performed)].response.isdict
    /\ all_attempts[Len(performed)].validation.reason = "Could not validate"

\* C7: a success outcome returned at attempt index i carries the answer
\* composed in attempt i, attempts = i + 1, the query generated in attempt i,
\* and every row of attempt i's execution, in store order.
C7_SuccessOutcomeOfAttempt ==
    Succeeded
    => LET p == performed[Len(performed)] IN
       /\ attempt + 1 = Len(performed)
       /\ outcome.keys = {"success", "answer", "attempts", "final_query", "results"}
       /\ p.composed /\ outcome.answer = p.answer
       /\ outcome.attempts = attempt + 1
       /\ p.function_call /\ outcome.final_query = p.sparql
       /\ p.executed /\ outcome.results = p.store.rows

C7_Witness ==
    /\ Succeeded
    /\ outcome.attempts = 2
    /\ Len(outcome.results) > ComposeCap
    /\ performed[1].composed
    /\ performed[1].answer # outcome.answer
    /\ performed[1].sparql # outcome.final_query

\* C8: on Exhausted the outcome's attempt list holds every attempt of the
\* session in the order performed, and each attempt that was composed and
\* validated carries its answer and its verdict in that list.
C8_ExhaustedCarriesEveryAttempt ==
    Exhausted
    => /\ "all_attempts" \in outcome.keys
       /\ Len(outcome.all_attempts) = Len(performed)
       /\ \A k \in 1..Len(performed) :
            LET a == outcome.all_attempts[k]
                p == performed[k]
            IN /\ a.sparql = p.sparql
               /\ p.executed => a.execution = execute_sparql(p.sparql, p.store)
               /\ p.composed
                  => "answer" \in a.keys /\ a.answer = p.answer
               /\ p.validated
                  => "validation" \in a.keys /\ a.validation = p.verdict
               /\ ~p.composed => "answer" \notin a.keys

C8_Witness ==
    /\ Exhausted
    /\ Len(outcome.all_attempts) = 2
    /\ Judged(performed[1], FALSE)
    /\ Judged(performed[2], FALSE)
    /\ performed[1].answer # performed[2].answer
    /\ performed[1].verdict # performed[2].verdict

\* C9: when no provider call met a transport fault, the session does not end
\* by raising an error.
C9_NeverRaisesWithoutTransportFault ==
    faulted = "" => pc # "raised"

\* C10: once a model call has met a transport fault, the session has ended by
\* raising that fault: nothing is returned, the faulted call is the last step
\* in the history, and no attempt after the faulted one has started.
C10_TransportFaultPropagates ==
    faulted # ""
    => /\ pc = "raised"
       /\ error = "TransportFault"
       /\ outcome = NoOutcome
       /\ Len(performed) = attempt + 1
       /\ steps[Len(steps)] = Step(attempt, faulted)
       /\ NoStepAfter(attempt)

C10_Witness ==
    /\ faulted = "validate"
    /\ HasAttemptsLeft(attempt, max_retries)
    /\ pc = "raised"

----------------------------------------------------------------------------
(* Two calls of query_with_retry interleaved on one instance *)

\* a list kept on the instance: a call resuming finds what the other call left
InstanceAttribute(own, left) == left

\* lines 132-133: conversation_history and all_attempts are locals of the
\* call: a call resuming finds its own list, whatever the other call left
LocalOf(own, left) == own

\* the running call is suspended and the other one, not yet ended, resumes
SwitchSession ==
    /\ parked.pc \notin {"done", "raised"}
    /\ session' = 3 - session
    /\ parked' =
          [pc |-> pc, attempt |-> attempt,
           conversation_history |-> conversation_history,
           all_attempts |-> all_attempts, context |-> context,
           sparql_query |-> sparql_query, reasoning |-> reasoning,
           answer |-> answer, outcome |-> outcome, error |-> error,
           steps |-> steps, performed |-> performed, faulted |-> faulted,
           passed |-> passed]
    /\ pc' = parked.pc
    /\ attempt' = parked.attempt
    /\ conversation_history' =
          LocalOf(parked.conversation_history, conversation_history)
    /\ all_attempts' = LocalOf(parked.all_attempts, all_attempts)
    /\ context' = parked.context
    /\ sparql_query' = parked.sparql_query
    /\ reasoning' = parked.reasoning
    /\ answer' = parked.answer
    /\ outcome' = parked.outcome
    /\ error' = parked.error
    /\ steps' = parked.steps
    /\ performed' = parked.performed
    /\ faulted' = parked.faulted
    /\ passed' = parked.passed
    /\ UNCHANGED <<data_dir, ingest, max_retries, schema, graph>>

\* the responses the two-call specification lets the provider and the store give
NarrowResponses ==
    \A k \in 1..Len(performed) :
        LET p == performed[k] IN
        /\ p.sparql \in {NoneVal, "SELECT ?a"}
        /\ Len(p.store.rows) <= 1
        /\ p.store.error \in {"", "syntax error"}
        /\ p.answer \in {"", "There are 7."}
        /\ p.response.parses => "reason" \in p.response.value.keys

InitTwo ==
    /\ max_retries = MaxRetriesBound
    /\ schema = SchemaDigest
    /\ graph = GraphHandle
    /\ data_dir = IngestedDataDir
    /\ ingest = NoIngest
    /\ pc = "loop"
    /\ attempt = 0
    /\ conversation_history = <<>>
    /\ all_attempts = <<>>
    /\ context = <<>>
    /\ sparql_query = NoneVal
    /\ reasoning = ""
    /\ answer = ""
    /\ outcome = NoOutcome
    /\ error = ""
    /\ steps = <<>>
    /\ performed = <<>>
    /\ faulted = ""
    /\ passed = NoPassed
    /\ session = 1
    /\ parked = FreshLocals

NextTwo ==
    \/ StartAttempt /\ NarrowResponses'
    \/ Generate /\ NarrowResponses'
    \/ Execute /\ NarrowResponses'
    \/ HasResult /\ NarrowResponses'
    \/ NoResult /\ NarrowResponses'
    \/ Compose /\ NarrowResponses'
    \/ Validate /\ NarrowResponses'
    \/ ReturnExhausted /\ NarrowResponses'
    \/ SwitchSession

SpecTwo == InitTwo /\ [][NextTwo]_vars

----------------------------------------------------------------------------
(* Construction of the system on a store, then one session *)

PredicateCounts == {0, 1, PromptPredicateCap, PromptPredicateCap + 1, MaxPredicates}
CardCounts == {0, 1, MaxCards}

\* the stores the system may be constructed on
Graphs ==
    { [fault |-> FALSE, predicates |-> Predicates(n), cards |-> Cards(m)] :
        n \in PredicateCounts, m \in CardCounts }
    \cup { [fault |-> TRUE, predicates |-> <<>>, cards |-> <<>>] }

InitSchema ==
    /\ max_retries = MaxRetriesBound
    /\ schema = NoDigest
    /\ graph \in Graphs
    /\ data_dir = IngestedDataDir
    /\ ingest = NoIngest
    /\ pc = "init"
    /\ attempt = 0
    /\ conversation_history = <<>>
    /\ all_attempts = <<>>
    /\ context = <<>>
    /\ sparql_query = NoneVal
    /\ reasoning = ""
    /\ answer = ""
    /\ outcome = NoOutcome
    /\ error = ""
    /\ steps = <<>>
    /\ performed = <<>>
    /\ faulted = ""
    /\ passed = NoPassed
    /\ session = 1
    /\ parked = FreshLocals

\* lines 26-29: __init__ keeps max_retries and the digest of extract_schema;
\* the session of query_with_retry begins when it has returned
Construct ==
    /\ pc = "init"
    /\ LET digest == extract_schema(graph) IN
         /\ pc' = IF digest.raises = "" THEN "loop" ELSE "init_raised"
         /\ error' = digest.raises
         /\ schema' = digest.value
    /\ UNCHANGED <<data_dir, ingest, max_retries, graph, attempt, conversation_history, all_attempts,
                   context, sparql_query, reasoning, answer, outcome, steps,
                   performed, faulted, passed, session, parked>>

NextSchema ==
    \/ Construct
    \/ StartAttempt /\ NarrowResponses'
    \/ Generate /\ NarrowResponses'
    \/ Execute /\ NarrowResponses'
    \/ HasResult /\ NarrowResponses'
    \/ NoResult /\ NarrowResponses'
    \/ Compose /\ NarrowResponses'
    \/ Validate /\ NarrowResponses'
    \/ ReturnExhausted /\ NarrowResponses'

SpecSchema == InitSchema /\ [][NextSchema]_vars

----------------------------------------------------------------------------
(* Ingest.run (src/mtg_rdf/ingest.py) and Extractor.extract
   (src/mtg_rdf/extractor.py), run up to MaxRuns times on one DATA_DIR *)

InitIngest ==
    /\ max_retries = DefaultMaxRetries
    /\ schema = SchemaDigest
    /\ graph = GraphHandle
    /\ data_dir \in DataDirs
    /\ ingest = [NoIngest EXCEPT !.run = 1, !.before = data_dir, !.checked = data_dir]
    /\ pc = "extract"
    /\ attempt = 0
    /\ conversation_history = <<>>
    /\ all_attempts = <<>>
    /\ context = <<>>
    /\ sparql_query = NoneVal
    /\ reasoning = ""
    /\ answer = ""
    /\ outcome = NoOutcome
    /\ error = ""
    /\ steps = <<>>
    /\ performed = <<>>
    /\ faulted = ""
    /\ passed = NoPassed
    /\ session = 1
    /\ parked = FreshLocals

\* the pipeline does not touch the query system
QuerySystemUnchanged ==
    UNCHANGED <<max_retries, schema, graph, attempt, conversation_history,
                all_attempts, context, sparql_query, reasoning, answer, outcome,
                steps, performed, faulted, passed, session, parked>>

\* extractor.py lines 26-29
CheckFiles ==
    /\ pc = "extract"
    /\ ingest' = [ingest EXCEPT !.extraction_required =
                      FilesMissing(data_dir.rdf, data_dir.meta.exists)]
    /\ pc' = IF data_dir.meta.exists THEN "compare" ELSE "decide"
    /\ UNCHANGED <<data_dir, error>>
    /\ QuerySystemUnchanged

\* extractor.py lines 31-37: json.load of the local file, the fetch of the
\* remote document, and the comparison of the dates
CompareMeta ==
    /\ pc = "compare"
    /\ IF ~data_dir.meta.parses
       THEN /\ pc' = "raised"
            /\ error' = "JSONDecodeError"
            /\ UNCHANGED ingest
       ELSE \E resp \in MetaResponses :
              IF resp.fault
              THEN /\ pc' = "raised"
                   /\ error' = "HTTPError"
                   /\ UNCHANGED ingest
              ELSE /\ pc' = "decide"
                   /\ ingest' =
                          [ingest EXCEPT
                              !.compared = TRUE,
                              !.remote_date = resp.date,
                              !.extraction_required =
                                  IF data_dir.meta.date # resp.date THEN TRUE ELSE @]
                   /\ UNCHANGED error
    /\ UNCHANGED data_dir
    /\ QuerySystemUnchanged

\* extractor.py lines 39-44: the second fetch of Meta.json, and its write
FetchMeta ==
    /\ pc = "decide"
    /\ ingest.extraction_required
    /\ \E resp \in MetaResponses :
         IF resp.fault
         THEN /\ pc' = "raised"
              /\ error' = "HTTPError"
              /\ UNCHANGED <<data_dir, ingest>>
         ELSE /\ pc' = "download"
              /\ data_dir' = [data_dir EXCEPT !.meta =
                                 [exists |-> TRUE, parses |-> TRUE, date |-> resp.date]]
              /\ ingest' = [ingest EXCEPT !.wrote_meta = TRUE]
              /\ UNCHANGED error
    /\ QuerySystemUnchanged

\* extractor.py lines 46-50
FetchAllPrintings ==
    /\ pc = "download"
    /\ \E resp \in AllPrintingsResponses :
         IF resp.fault
         THEN /\ pc' = "raised"
              /\ error' = "HTTPError"
              /\ UNCHANGED <<data_dir, ingest>>
         ELSE /\ pc' = "returned"
              /\ data_dir' = [data_dir EXCEPT !.all_printings =
                                 [exists |-> TRUE, version |-> resp.version]]
              /\ ingest' = [ingest EXCEPT !.wrote_all_printings = TRUE]
              /\ UNCHANGED error
    /\ QuerySystemUnchanged

\* extractor.py line 39, not taken: extract returns
NoExtraction ==
    /\ pc = "decide"
    /\ ~ingest.extraction_required
    /\ pc' = "returned"
    /\ UNCHANGED <<data_dir, ingest, error>>
    /\ QuerySystemUnchanged

\* ingest.py lines 29-41: the test for AllPrintings.json, then the transform,
\* which writes the RDF file
CheckAndTransform ==
    /\ pc = "returned"
    /\ pc' = "ingested"
    /\ IF ~data_dir.all_printings.exists
       THEN /\ ingest' = [ingest EXCEPT !.checked = data_dir, !.result = "False"]
            /\ UNCHANGED data_dir
       ELSE /\ ingest' = [ingest EXCEPT !.checked = data_dir, !.transformed = TRUE,
                                        !.result = "True"]
            /\ data_dir' = [data_dir EXCEPT !.rdf = TRUE]
    /\ UNCHANGED error
    /\ QuerySystemUnchanged

\* the pipeline is run again on the files the last run left
RunAgain ==
    /\ pc \in {"ingested", "raised"}
    /\ ingest.run < MaxRuns
    /\ pc' = "extract"
    /\ error' = ""
    /\ ingest' = [NoIngest EXCEPT !.run = ingest.run + 1, !.before = data_dir,
                                  !.checked = data_dir]
    /\ UNCHANGED data_dir
    /\ QuerySystemUnchanged

NextIngest ==
    \/ CheckFiles
    \/ CompareMeta
    \/ FetchMeta
    \/ FetchAllPrintings
    \/ NoExtraction
    \/ CheckAndTransform
    \/ RunAgain

SpecIngest == InitIngest /\ [][NextIngest]_vars

----------------------------------------------------------------------------
(* _build_context applied to lists of attempt dicts *)

MaxPrior == 2

\* the query and rationale of a structured call
Calls ==
    { <<"SELECT ?a", Rationale>>, <<"SELECT ?b", "">>, <<NoneVal, Rationale>> }

\* the dicts lines 282-292 build from what execute_sparql returns
ExecutedAttempts ==
    { AttemptResult(c[1], c[2], execute_sparql(c[1], store)) :
        c \in Calls, store \in UNION { StoreResponses(q[1]) : q \in Calls } }

\* the dicts that went through lines 170-171 with an unsatisfactory verdict
\* whose reason line 183 could print
JudgedAttempts ==
    { RecordAnswer(<<a>>, text, v)[1] :
        a \in { x \in ExecutedAttempts : MeaningfulResult(x) },
        text \in Answers,
        v \in { validate_answer(r).details :
                  r \in { x \in ValidationResponses :
                            /\ validate_answer(x).raises = ""
                            /\ ~validate_answer(x).is_satisfactory
                            /\ "reason" \in validate_answer(x).details.keys } } }

\* the attempts after which the loop can go on to another attempt
PriorAttempts ==
    {NoCallResult}
    \cup { a \in ExecutedAttempts :
             (a.sparql = NoneVal => ~a.execution.success) /\ ~MeaningfulResult(a) }
    \cup JudgedAttempts

PriorLists == UNION { [1..n -> PriorAttempts] : n \in 0..MaxPrior }

InitContext ==
    /\ max_retries = DefaultMaxRetries
    /\ schema = SchemaDigest
    /\ graph = GraphHandle
    /\ data_dir = IngestedDataDir
    /\ ingest = NoIngest
    /\ pc = "context"
    /\ attempt = 0
    /\ conversation_history = <<>>
    /\ all_attempts \in PriorLists
    /\ context = <<>>
    /\ sparql_query = NoneVal
    /\ reasoning = ""
    /\ answer = ""
    /\ outcome = NoOutcome
    /\ error = ""
    /\ steps = <<>>
    /\ performed = <<>>
    /\ faulted = ""
    /\ passed = NoPassed
    /\ session = 1
    /\ parked = FreshLocals

\* lines 294-318
BuildContext ==
    /\ pc = "context"
    /\ LET built == _build_context(Question, all_attempts) IN
         /\ pc' = IF built.raises = "" THEN "built" ELSE "raised"
         /\ error' = built.raises
         /\ context' = built.text
    /\ all_attempts' = _build_context_arg(Question, all_attempts)
    /\ UNCHANGED <<data_dir, ingest, max_retries, schema, graph, attempt, conversation_history, sparql_query,
                   reasoning, answer, outcome, steps, performed, faulted, passed,
                   session, parked>>

SpecContext == InitContext /\ [][BuildContext]_vars

----------------------------------------------------------------------------
(* Properties, continued *)

\* the one issue by which the context is to describe a prior attempt
ClaimedIssue(a) ==
    IF "validation" \in a.keys /\ "satisfactory" \in a.validation.keys
       /\ ~a.validation.satisfactory
    THEN <<"\nIssue: ", a.validation.reason, "\nSuggestion: ",
           DictGet(a.validation, "suggestion", a.validation.suggestion, "N/A")>>
    ELSE IF ~a.execution.success /\ "error" \in a.execution.keys
    THEN <<"\nError: ", a.execution.error>>
    ELSE <<"\nIssue: Returned no results">>

RECURSIVE ClaimedAttempts(_, _)
ClaimedAttempts(previous_attempts, i) ==
    IF i > Len(previous_attempts) THEN <<>>
    ELSE <<"\n\nAttempt ", ToString(i), ":", "\nQuery: ", previous_attempts[i].sparql>>
         \o ClaimedIssue(previous_attempts[i])
         \o ClaimedAttempts(previous_attempts, i + 1)

NoCall(p) == p.generated /\ ~p.function_call

\* attempt k (counted from 1) has run to its end
Finished(k) == attempt >= k

\* C11 (as stated): an attempt whose generation response held no structured
\* call is recorded with an execution result that is Ok with rowCount = 0.
C11_MissRecordedAsOk ==
    \A k \in 1..Len(performed) :
        NoCall(performed[k])
        => /\ k <= Len(all_attempts)
           /\ all_attempts[k].execution.success
           /\ all_attempts[k].execution.count = 0

\* C11 (amended): an attempt whose generation response held no structured
\* call does not raise; no store query, composition or validation is made for
\* it; its execution result is recorded with success = false, count = 0, no
\* rows and no error text; and the retry logic is that of a zero-row result:
\* the no-results turns are appended when attempts remain, else the session
\* ends Exhausted.
C11_MissIsNoResultAttempt ==
    \A k \in 1..Len(performed) :
        NoCall(performed[k])
        => /\ k <= Len(all_attempts)
           /\ all_attempts[k].keys = {"sparql", "reasoning", "execution"}
           /\ all_attempts[k].sparql = NoneVal
           /\ LET e == all_attempts[k].execution IN
                /\ ~e.success
                /\ "count" \in e.keys /\ e.count = 0
                /\ "results" \in e.keys /\ e.results = <<>>
                /\ "error" \notin e.keys
           /\ \A j \in 1..Len(steps) :
                steps[j].attempt = k - 1
                => steps[j].op \in {"build_context", "generate", "retry"}
           /\ k = Len(performed)
              => /\ pc \in {"check", "loop", "done"}
                 /\ pc = "done" => Exhausted /\ k = max_retries
           /\ (Finished(k) /\ k < max_retries)
              => /\ Len(conversation_history) >= 2 * k
                 /\ conversation_history[2 * k - 1] =
                        [role |-> "assistant",
                         content |-> <<"I tried this query but got no results: ",
                                       NoneVal>>]
                 /\ conversation_history[2 * k].role = "user"
           /\ (Finished(k) /\ k >= max_retries)
              => Len(conversation_history) = 2 * (k - 1)

C11_Witness ==
    /\ Exhausted
    /\ max_retries = 2
    /\ NoCall(performed[1])
    /\ NoCall(performed[2])
    /\ Len(conversation_history) = 2

\* the tokens that follow "Query: " in a context, in order
RECURSIVE QueriesIn(_)
QueriesIn(text) ==
    IF Len(text) < 2 THEN <<>>
    ELSE IF text[1] = "\nQuery: "
    THEN <<text[2]>> \o QueriesIn(SubSeq(text, 3, Len(text)))
    ELSE QueriesIn(Tail(text))

\* C12: the context built for attempt i > 0 holds the query text of each of
\* the attempts 0..i-1, in attempt order.
C12_ContextHoldsEarlierQueries ==
    performed # <<>>
    => /\ context # <<>>
       /\ QueriesIn(context) =
              [k \in 1..(Len(performed) - 1) |-> performed[k].sparql]

C12_Witness ==
    /\ Len(performed) = 3
    /\ performed[1].sparql = "SELECT ?b"
    /\ performed[2].sparql = "SELECT ?a"
    /\ pc = "generate"

\* C13: every recorded attempt has an execution result, and has an answer and
\* a verdict only if its execution succeeded with at least one row.
C13_AnswerOnlyWithRows ==
    \A k \in 1..Len(all_attempts) :
        LET a == all_attempts[k]
            p == performed[k]
        IN /\ "execution" \in a.keys
           /\ ("answer" \in a.keys \/ "validation" \in a.keys \/ p.composed
               \/ p.validated)
              => /\ a.execution.success
                 /\ "count" \in a.execution.keys
                 /\ a.execution.count > 0
                 /\ p.executed /\ ~p.store.fault /\ RowCount(p) > 0

C13_Witness ==
    /\ Len(all_attempts) = 2
    /\ "answer" \in all_attempts[1].keys
    /\ "validation" \in all_attempts[1].keys
    /\ all_attempts[2].execution.success
    /\ all_attempts[2].execution.count = 0
    /\ pc = "loop"

\* C16: a validator payload that is a JSON object without a satisfactory
\* field, or with satisfactory = false and no reason field, is handled as a
\* parse failure: the default satisfactory verdict is recorded and the
\* session does not raise.
C16_MisshapenVerdictIsDefaulted ==
    \A k \in 1..Len(performed) :
        LET p == performed[k] IN
        (/\ p.validated
         /\ p.response.parses /\ p.response.isdict
         /\ \/ "satisfactory" \notin p.response.value.keys
            \/ ~p.response.value.satisfactory /\ "reason" \notin p.response.value.keys)
        => /\ error = ""
           /\ p.is_satisfactory
           /\ all_attempts[k].validation = DefaultVerdict

\* the step t may come right after the step s
StepFollows(s, t) ==
    \/ /\ t.attempt = s.attempt
       /\ <<s.op, t.op>> \in
             { <<"build_context", "generate">>, <<"generate", "execute">>,
               <<"execute", "compose">>, <<"compose", "validate">>,
               <<"validate", "record">>, <<"record", "retry">>,
               <<"generate", "retry">>, <<"execute", "retry">> }
    \/ /\ t.attempt = s.attempt + 1
       /\ s.op = "retry"
       /\ t.op = "build_context"

\* C17: the steps of a session come in the order build-context, generate,
\* execute, then compose and validate only when the execution is Ok with
\* rowCount > 0; a validation follows a composition of the same attempt; and
\* attempt i+1 begins only after the last step of attempt i.
C17_StepsInOrder ==
    /\ steps # <<>> => steps[1] = Step(0, "build_context")
    /\ \A j \in 1..(Len(steps) - 1) : StepFollows(steps[j], steps[j + 1])
    /\ \A j \in 1..Len(steps) :
         /\ steps[j].attempt + 1 <= Len(performed)
         /\ steps[j].op \in {"compose", "validate"}
            => LET p == performed[steps[j].attempt + 1] IN
               p.executed /\ ~p.store.fault /\ RowCount(p) > 0
         /\ steps[j].op = "execute" => performed[steps[j].attempt + 1].function_call

C17_Witness ==
    /\ Succeeded
    /\ Len(steps) = 13
    /\ steps[6] = Step(0, "record")
    /\ steps[7] = Step(0, "retry")
    /\ steps[13] = Step(1, "record")

IsPrefix(a, b) == Len(a) <= Len(b) /\ SubSeq(b, 1, Len(a)) = a

\* C18: the conversation history is append-only: every step leaves it as it
\* was or extends it, and it is extended (by two turns) only at the end of an
\* attempt that did not satisfy and is not the last.
C18_HistoryAppendOnly ==
    [][ /\ IsPrefix(conversation_history, conversation_history')
        /\ conversation_history' # conversation_history
           => /\ Len(conversation_history') = Len(conversation_history) + 2
              /\ HasAttemptsLeft(attempt, max_retries)
              /\ attempt' = attempt + 1
              /\ pc' = "loop"
              /\ ~performed'[attempt + 1].is_satisfactory ]_vars

C18_Witness ==
    /\ Len(conversation_history) = 4
    /\ conversation_history[1] # conversation_history[3]
    /\ conversation_history[2] # conversation_history[4]
    /\ Exhausted

\* C19: no called component changes the list it is handed: the history is
\* the same after _single_attempt (whose messages hold a copy of it) and
\* after both retry preparations, which return a longer list; the attempt
\* list is the same after _build_context.
C19_CalleesLeaveArguments ==
    [][ /\ pc = "generate"
           => /\ conversation_history' = conversation_history
              /\ performed'[Len(performed')].generated
                 => LET m == performed'[Len(performed')].messages IN
                    SubSeq(m, 2, Len(m) - 1) = conversation_history
        /\ (pc = "loop" /\ pc' # "done") => all_attempts' = all_attempts
        /\ passed'.after = passed'.before
        /\ passed' # passed
           => /\ passed'.before = conversation_history
              /\ IsPrefix(passed'.before, conversation_history')
              /\ Len(conversation_history') = Len(passed'.before) + 2 ]_vars

C19_Witness ==
    /\ passed.before # <<>>
    /\ passed.after = passed.before
    /\ Len(conversation_history) = 4
    /\ Len(performed) = 3
    /\ performed[3].generated
    /\ Len(performed[3].messages) = 6

\* C20: for an execution result with n rows the composer is given the first
\* min(n, 20) rows and the validator the first min(n, 10) rows, in store
\* order, and both are given the total n.
C20_PromptsHoldPrefixAndTotal ==
    \A k \in 1..Len(performed) :
        LET p == performed[k]
            n == Len(p.store.rows)
        IN /\ p.composed
              => /\ p.compose_prompt.rows = [j \in 1..Min(n, 20) |-> p.store.rows[j]]
                 /\ p.compose_prompt.total = n
           /\ p.validated
              => /\ p.validate_prompt.rows = [j \in 1..Min(n, 10) |-> p.store.rows[j]]
                 /\ p.validate_prompt.total = n

C20_Witness ==
    /\ performed # <<>>
    /\ performed[Len(performed)].validated
    /\ Len(performed[Len(performed)].store.rows) = MaxRows
    /\ Len(performed[Len(performed)].compose_prompt.rows) = ComposeCap
    /\ Len(performed[Len(performed)].validate_prompt.rows) = ValidateCap

\* the locals of the running call, as a record
Running ==
    [pc |-> pc, attempt |-> attempt,
     conversation_history |-> conversation_history,
     all_attempts |-> all_attempts, context |-> context,
     sparql_query |-> sparql_query, reasoning |-> reasoning,
     answer |-> answer, outcome |-> outcome, error |-> error,
     steps |-> steps, performed |-> performed, faulted |-> faulted,
     passed |-> passed]

\* the history a call has after its first k attempts, from its own attempts
RECURSIVE HistoryAfter(_, _, _)
HistoryAfter(attempts, k, limit) ==
    IF k = 0 THEN <<>>
    ELSE IF ~HasAttemptsLeft(k - 1, limit) THEN HistoryAfter(attempts, k - 1, limit)
    ELSE IF "validation" \in attempts[k].keys
    THEN _prepare_retry_with_feedback(attempts[k], attempts[k].validation,
                                      HistoryAfter(attempts, k - 1, limit))
    ELSE _prepare_retry_context(attempts[k], HistoryAfter(attempts, k - 1, limit))

\* the call with locals c holds what its own responses produced, and nothing
\* else
OwnEntriesOnly(c) ==
    /\ Len(c.all_attempts) <= Len(c.performed)
    /\ c.attempt <= Len(c.all_attempts)
    /\ \A k \in 1..Len(c.all_attempts) :
         LET a == c.all_attempts[k]
             p == c.performed[k]
         IN /\ a.sparql = p.sparql
            /\ p.executed => a.execution = execute_sparql(p.sparql, p.store)
            /\ "answer" \in a.keys => p.composed /\ a.answer = p.answer
            /\ "validation" \in a.keys => p.validated /\ a.validation = p.verdict
    /\ c.conversation_history = HistoryAfter(c.all_attempts, c.attempt, max_retries)
    /\ (c.pc = "done" /\ c.outcome.success)
       => LET p == c.performed[Len(c.performed)] IN
          /\ c.outcome.attempts = Len(c.performed)
          /\ c.outcome.answer = p.answer
          /\ c.outcome.final_query = p.sparql
          /\ c.outcome.results = p.store.rows
    /\ (c.pc = "done" /\ ~c.outcome.success)
       => /\ c.outcome.all_attempts = c.all_attempts
          /\ Len(c.all_attempts) = max_retries
          /\ \A k \in 1..Len(c.performed) : ~c.performed[k].is_satisfactory

\* C14: of two calls interleaved on one instance, each one's attempt list and
\* history hold only what that call's own responses produced, its outcome is
\* the one those responses give, and no step of either call changes the
\* schema digest, the store handle or max_retries.
C14_SessionsShareNoState ==
    /\ [](OwnEntriesOnly(Running) /\ OwnEntriesOnly(parked))
    /\ [][schema' = schema /\ graph' = graph /\ max_retries' = max_retries]_vars

C14_Witness ==
    /\ session = 2
    /\ pc = "done" /\ outcome.success /\ Len(conversation_history) = 2
    /\ parked.pc = "done" /\ ~parked.outcome.success
    /\ Len(parked.conversation_history) = 2
    /\ parked.conversation_history # conversation_history
    /\ Len(parked.steps) > 4

\* the tokens of the generation system prompt of the k-th started attempt
SystemPrompt(k) == performed[k].messages[1].content

Holds(text, token) == \E j \in 1..Len(text) : text[j] = token

\* C21: the generation system prompt of every attempt holds every predicate
\* name of the digest (the sampler keeps up to 100) and every example
\* entity name of the digest.
C21_PromptEmbedsDigest ==
    \A k \in 1..Len(performed) :
        performed[k].generated
        => /\ \A i \in 1..Len(schema.predicates) :
                Holds(SystemPrompt(k), schema.predicates[i])
           /\ \A i \in 1..Len(schema.sample_cards) :
                Holds(SystemPrompt(k), schema.sample_cards[i])

\* C22: on a store that answers the sample query with zero rows the
\* construction completes with an empty example set in the digest, and the
\* sessions that follow run with it: their system prompt ends at the
\* heading of the examples.
C22_EmptySamplesAreValid ==
    (~graph.fault /\ graph.cards = <<>> /\ pc # "init")
    => /\ pc # "init_raised"
       /\ schema.sample_cards = <<>>
       /\ schema.predicates = Take(graph.predicates, PredicateCap)
       /\ \A k \in 1..Len(performed) :
            performed[k].generated
            => SystemPrompt(k)[Len(SystemPrompt(k))] = "Sample cards: "

C22_Witness ==
    /\ ~graph.fault /\ graph.cards = <<>> /\ graph.predicates # <<>>
    /\ Succeeded
    /\ Len(performed) = 2
    /\ performed[2].generated

\* the number of steps of the session in which op was performed: a call
\* issued counts whether it returned or raised
Count(op) == Cardinality({ k \in 1..Len(steps) : steps[k].op = op })

Started == Count("build_context")

ProviderCalls == Count("generate") + Count("compose") + Count("validate")

\* C23 (as stated): in a session that has ended, generation calls equal
\* attempts started, store queries are at most generation calls, composition
\* calls equal validation calls and are at most the attempts, provider calls
\* are at most 3 * max_retries and store queries at most max_retries.
C23_CallCountsAsStated ==
    Ended
    => /\ Count("generate") = Started
       /\ Count("execute") <= Count("generate")
       /\ Count("compose") = Count("validate")
       /\ Count("compose") <= Started
       /\ ProviderCalls <= 3 * max_retries
       /\ Count("execute") <= max_retries

\* C23 (amended): at every step generation calls are the attempts started
\* (less the one being started), store queries are at most generation calls,
\* validation calls are the composition calls, or one less while or after a
\* composition call that was not answered; in a session that has ended the
\* provider calls are at most 3 * max(0, max_retries) and the store queries
\* at most max(0, max_retries).
C23_CallCounts ==
    LET limit == IF max_retries < 0 THEN 0 ELSE max_retries IN
    /\ Count("generate") = (IF pc = "generate" THEN Started - 1 ELSE Started)
    /\ Count("execute") <= Count("generate")
    /\ Count("compose") <= Started
    /\ Count("validate") =
         (IF pc = "validate" \/ faulted = "compose"
          THEN Count("compose") - 1 ELSE Count("compose"))
    /\ Started <= limit
    /\ ProviderCalls <= 3 * limit
    /\ Count("execute") <= limit

C23_Witness ==
    /\ Exhausted
    /\ max_retries = MaxRetriesBound
    /\ ProviderCalls = 3 * max_retries
    /\ Count("execute") = max_retries

\* C24: in every failure outcome the reported attempts value is the number
\* of entries of all_attempts, whatever integer max_retries is.
C24_FailureAttemptsIsListLength ==
    Exhausted => outcome.attempts = Len(outcome.all_attempts)

\* C25: when attempt i (from 0) starts, the history holds exactly 2*i turns,
\* assistant then user in alternation; after the last attempt has failed
\* the history is not extended.
C25_HistoryLengthByAttempt ==
    /\ (pc = "generate" \/ (pc = "loop" /\ LoopContinues(attempt, max_retries)))
       => /\ Len(conversation_history) = 2 * attempt
          /\ \A j \in 1..Len(conversation_history) :
               conversation_history[j].role =
                   (IF j % 2 = 1 THEN "assistant" ELSE "user")
    /\ (Exhausted /\ max_retries > 0)
       => Len(conversation_history) = 2 * (max_retries - 1)

C25_Witness ==
    /\ Exhausted
    /\ max_retries = DefaultMaxRetries
    /\ Len(conversation_history) = 2 * (DefaultMaxRetries - 1)
    /\ conversation_history[3].role = "assistant"
    /\ conversation_history[4].role = "user"

\* the call of extract of the running pipeline has returned normally
ExtractReturned == pc \in {"returned", "ingested"}

\* the condition of the claim on the files the call found and on the remote
\* date it read: the RDF file or Meta.json is missing, or the dates differ
Stale ==
    \/ ~ingest.before.rdf
    \/ ~ingest.before.meta.exists
    \/ ingest.compared /\ ingest.before.meta.date # ingest.remote_date

\* C26: a call of extract writes Meta.json or AllPrintings.json only if the
\* RDF file was missing, or Meta.json was missing, or its date differed from
\* the remote one; a call that returns has then written both, and otherwise
\* has left both as they were.  So AllPrintings.json may be absent after
\* extract has returned, and Ingest.run then returns False without running
\* the transform.
C26_ExtractsOnlyWhenStale ==
    /\ (ingest.wrote_meta \/ ingest.wrote_all_printings) => Stale
    /\ ExtractReturned
       => /\ Stale <=> (ingest.wrote_meta /\ ingest.wrote_all_printings)
          /\ ~Stale
             => /\ ingest.checked.meta = ingest.before.meta
                /\ ingest.checked.all_printings = ingest.before.all_printings
    /\ pc = "returned"
       => /\ data_dir.rdf = ingest.before.rdf
          /\ ~Stale => data_dir = ingest.before
    /\ pc = "ingested"
       => IF ingest.checked.all_printings.exists
          THEN ingest.transformed /\ ingest.result = "True"
          ELSE /\ ~ingest.transformed
               /\ ingest.result = "False"
               /\ data_dir = ingest.before

C26_Witness ==
    /\ pc = "ingested"
    /\ ingest.run = 2
    /\ ~Stale
    /\ ~data_dir.all_printings.exists
    /\ ingest.result = "False"

====
